---- MODULE Spec2Model ----
(***************************************************************************)
(* A model of features/steps/steps.py: the behave step implementations of  *)
(* the IFC Gherkin rules.  One scenario is one behaviour: the steps run    *)
(* one after another on the shared `context`; a step that raises ends the  *)
(* scenario.  Every step is one action, translated from its code.          *)
(*                                                                         *)
(* Modelling conventions                                                   *)
(*  - an entity instance is a record; its fields are its attributes and    *)
(*    `type` is its IFC class.  Its identity is its position in the file:  *)
(*    the model refers to instances by that id, as ifcopenshell compares   *)
(*    instances by id.  `getattr` on a name that is no field raises        *)
(*    AttributeError, as Python's does.                                    *)
(*  - a coordinate triple is one token (a number): the code only hashes    *)
(*    and compares coordinates.                                            *)
(*  - an unordered edge (frozenset) is a set, an oriented edge (tuple) a   *)
(*    2-tuple.                                                             *)
(*  - `context` is a function from attribute names to values; an attribute *)
(*    that was never set is not in its domain.                             *)
(***************************************************************************)
EXTENDS Naturals, Integers, Sequences, FiniteSets, TLC

VARIABLES context, status, step, errors, message

vars == <<context, status, step, errors, message>>

(***************************************************************************)
(* Bounds of the enumerated inputs.                                        *)
(***************************************************************************)
NV == 3
MaxLoopLen == 3
MaxInsts == 2
MaxNum == 2
MaxWalls == 2

(***************************************************************************)
(* Python values.                                                          *)
(***************************************************************************)
\* None where an instance reference is expected (ids are positive)
None == 0
\* the marker of line 318, where an instance reference is expected
NotFound == 0 - 1
\* a local variable that was never assigned
Unbound == 0 - 2
\* the empty string '' where an instance reference is expected
EmptyStr == 0 - 3
\* None where a string is expected
NoneStr == "<None>"

Range(s) == {s[i] : i \in DOMAIN s}

RECURSIVE Concat(_)
Concat(ss) == IF ss = <<>> THEN <<>> ELSE Head(ss) \o Concat(Tail(ss))

\* Iteration over a Python set: the order is fixed for a given set but not
\* specified; CHOOSE is that arbitrary fixed order.
RECURSIVE SetToSeq(_)
SetToSeq(S) ==
    IF S = {} THEN <<>>
    ELSE LET x == CHOOSE y \in S : TRUE IN <<x>> \o SetToSeq(S \ {x})

\* seq[i] for a Python index i (0-based, negative from the end)
PyIndexOk(s, i) == (0 - Len(s)) <= i /\ i < Len(s)
PyIndex(s, i) == IF i >= 0 THEN s[i + 1] ELSE s[Len(s) + i + 1]

(***************************************************************************)
(* The schema: the classes of the instances the files below hold, each     *)
(* with its supertypes (itself included).                                  *)
(***************************************************************************)
Supertypes ==
    [ IfcWall |-> {"IfcWall", "IfcElement", "IfcProduct"},
      IfcBuilding |-> {"IfcBuilding", "IfcProduct"},
      IfcRelAggregates |-> {"IfcRelAggregates"},
      IfcLocalPlacement |-> {"IfcLocalPlacement", "IfcObjectPlacement"},
      IfcGridPlacement |-> {"IfcGridPlacement", "IfcObjectPlacement"},
      IfcPolyLoop |-> {"IfcPolyLoop"},
      IfcOrientedEdge |-> {"IfcOrientedEdge"},
      IfcIndexedPolygonalFace |-> {"IfcIndexedPolygonalFace"},
      IfcIndexedPolygonalFaceWithVoids |->
          {"IfcIndexedPolygonalFaceWithVoids", "IfcIndexedPolygonalFace"},
      IfcConnectedFaceSet |-> {"IfcConnectedFaceSet", "IfcRepresentationItem"},
      IfcClosedShell |->
          {"IfcClosedShell", "IfcConnectedFaceSet", "IfcRepresentationItem"},
      IfcTriangulatedFaceSet |->
          {"IfcTriangulatedFaceSet", "IfcTessellatedFaceSet", "IfcRepresentationItem"},
      IfcPolygonalFaceSet |->
          {"IfcPolygonalFaceSet", "IfcTessellatedFaceSet", "IfcRepresentationItem"},
      IfcFaceBasedSurfaceModel |-> {"IfcFaceBasedSurfaceModel", "IfcRepresentationItem"} ]

SchemaTypes == UNION {Supertypes[t] : t \in DOMAIN Supertypes}

\* inst.is_a(s)
is_a(inst, s) == s \in Supertypes[inst.type]

hasattr(obj, name) == name \in DOMAIN obj

\* file.by_type(t): the ids of the instances of class t, in file order; it
\* raises for a name that is no class of the schema
by_type_raises(file, t) == t \notin SchemaTypes

RECURSIVE IdsFrom(_, _, _)
IdsFrom(file, t, i) ==
    IF i > Len(file.insts) THEN <<>>
    ELSE (IF is_a(file.insts[i], t) THEN <<i>> ELSE <<>>) \o IdsFrom(file, t, i + 1)

by_type(file, t) == IdsFrom(file, t, 1)

(***************************************************************************)
(* get_edges                                                               *)
(***************************************************************************)
edge_type(oriented, a, b) == IF oriented THEN <<a, b>> ELSE {a, b}

\* Shifted with the fault of closing the loop on its last vertex
Shifted_NoWrap(coords) == Tail(coords) \o <<coords[Len(coords)]>>

\* coords[1:] + [coords[0]]
Shifted(coords) == Tail(coords) \o <<Head(coords)>>

\* map(edge_type, zip(coords, shifted))
LoopEdges(coords, oriented) ==
    [i \in 1..Len(coords) |-> edge_type(oriented, coords[i], Shifted(coords)[i])]

\* OrientedEdgeCoords with the fault of ignoring Orientation
OrientedEdgeCoords_Unflipped(ed) == <<ed.EdgeStart, ed.EdgeEnd>>

\* the oriented edge's two coordinates, reversed when Orientation is false
OrientedEdgeCoords(ed) ==
    IF ed.Orientation THEN <<ed.EdgeStart, ed.EdgeEnd>>
    ELSE <<ed.EdgeEnd, ed.EdgeStart>>

ConnectedEdges(inst, oriented) ==
    LET loops == SelectSeq(inst.deps, LAMBDA d : is_a(d, "IfcPolyLoop"))
        edges == SelectSeq(inst.deps, LAMBDA d : is_a(d, "IfcOrientedEdge"))
    IN  Concat([i \in 1..Len(loops) |-> LoopEdges(loops[i].Polygon, oriented)])
        \o [i \in 1..Len(edges) |->
              LET c == OrientedEdgeCoords(edges[i])
              IN  edge_type(oriented, c[1], c[2])]

\* zip(range(3), ((x + 1) % 3 for x in range(3)))
TriangleIJ == [x \in 1..3 |-> <<x - 1, x % 3>>]

TriangulatedEdges(inst, oriented) ==
    LET coords == inst.CoordList
        tri(idx) == [k \in 1..3 |->
                       edge_type(oriented,
                                 PyIndex(coords, idx[TriangleIJ[k][1] + 1] - 1),
                                 PyIndex(coords, idx[TriangleIJ[k][2] + 1] - 1))]
    IN  Concat([f \in 1..Len(inst.CoordIndex) |-> tri(inst.CoordIndex[f])])

\* emit(loop) of the polygonal face set
emit(coords, loop, oriented) ==
    LoopEdges([i \in 1..Len(loop) |-> PyIndex(coords, loop[i] - 1)], oriented)

PolygonalEdges(inst, oriented) ==
    LET coords == inst.CoordList
        face(f) ==
            emit(coords, f.CoordIndex, oriented)
            \o (IF is_a(f, "IfcIndexedPolygonalFaceWithVoids")
                THEN Concat([k \in 1..Len(f.InnerCoordIndices) |->
                               emit(coords, f.InnerCoordIndices[k], oriented)])
                ELSE <<>>)
    IN  Concat([f \in 1..Len(inst.Faces) |-> face(inst.Faces[f])])

\* the exception get_edges raises on inst, "" when it raises none
get_edges_raises(inst) ==
    IF is_a(inst, "IfcConnectedFaceSet") THEN
        IF \E d \in Range(inst.deps) : is_a(d, "IfcPolyLoop") /\ d.Polygon = <<>>
        THEN "IndexError" ELSE ""
    ELSE IF is_a(inst, "IfcTriangulatedFaceSet") THEN
        IF \E idx \in Range(inst.CoordIndex) : \E x \in 1..3 :
               ~PyIndexOk(inst.CoordList, idx[x] - 1)
        THEN "IndexError" ELSE ""
    ELSE IF is_a(inst, "IfcPolygonalFaceSet") THEN
        LET loops(f) == {f.CoordIndex}
                        \cup (IF is_a(f, "IfcIndexedPolygonalFaceWithVoids")
                              THEN Range(f.InnerCoordIndices) ELSE {})
        IN  IF \E f \in Range(inst.Faces) : \E l \in loops(f) :
                   l = <<>> \/ \E i \in Range(l) : ~PyIndexOk(inst.CoordList, i - 1)
            THEN "IndexError" ELSE ""
    ELSE "NotImplementedError"

\* the edges get_edges yields on inst, in the order it yields them
get_edges(inst, oriented) ==
    IF get_edges_raises(inst) # "" THEN <<>>
    ELSE IF is_a(inst, "IfcConnectedFaceSet") THEN ConnectedEdges(inst, oriented)
    ELSE IF is_a(inst, "IfcTriangulatedFaceSet") THEN TriangulatedEdges(inst, oriented)
    ELSE PolygonalEdges(inst, oriented)

\* collections.Counter over a sequence
Counter(seq) ==
    [e \in Range(seq) |-> Cardinality({i \in DOMAIN seq : seq[i] = e})]

(***************************************************************************)
(* Rendering of findings: fmt, the dataclasses' __str__, asdict.           *)
(* A Python string is kept abstract: what it is the text of, and its       *)
(* length.  str(inst) is the instance's STEP line "#id=TYPE(args)".        *)
(***************************************************************************)
NameLen ==
    [ IfcWall |-> 7, IfcBuilding |-> 11, IfcRelAggregates |-> 16,
      IfcLocalPlacement |-> 17, IfcGridPlacement |-> 16,
      IfcConnectedFaceSet |-> 19, IfcClosedShell |-> 14,
      IfcTriangulatedFaceSet |-> 22, IfcPolygonalFaceSet |-> 19,
      IfcFaceBasedSurfaceModel |-> 24 ]

\* the length of the argument list of an instance's STEP line: a rooted
\* entity starts with its 22-character GlobalId
ArgsLen(inst) == IF hasattr(inst, "GlobalId") THEN 40 ELSE 5

\* str(v) of an instance (kind "inst", v its id), an int, a string or None
str(file, kind, v) ==
    IF kind = "inst" /\ v > 0 THEN
        [of |-> <<"inst", v>>,
         len |-> 5 + NameLen[file.insts[v].type] + ArgsLen(file.insts[v])]
    ELSE IF kind = "inst" /\ v = NotFound THEN [of |-> <<"str", "Not found">>, len |-> 9]
    ELSE IF kind = "inst" THEN [of |-> <<"str", "None">>, len |-> 4]
    ELSE IF kind = "int" THEN [of |-> <<"int", v>>, len |-> 1]
    ELSE IF kind = "typename" THEN [of |-> <<"str", v>>, len |-> NameLen[v]]
    ELSE [of |-> <<kind, v>>, len |-> 28]

\* the length above which fmt elides, and the head and tail it keeps
ElideOver == 35
ElideHead == 25
ElideTail == 7

fmt(file, kind, x) ==
    IF kind = "frozenset" /\ Cardinality(x) = 2 THEN
        LET s == SetToSeq(x) IN <<s[1], "--", s[2]>>
    ELSE IF kind = "tuple" THEN <<x[1], "->", x[2]>>
    ELSE LET v == str(file, kind, x)
         IN  IF v.len > ElideOver
             THEN [of |-> v.of, head |-> ElideHead, tail |-> ElideTail]
             ELSE v

\* all([container, relationship, container_obj_placement, entity_obj_placement])
PlacementAll(dc) ==
    /\ dc.container \notin {None, EmptyStr}
    /\ dc.relationship # ""
    /\ dc.container_obj_placement \notin {None, EmptyStr}
    /\ dc.entity_obj_placement \notin {None, EmptyStr}

\* whether dc.__str__ returns a string: instance_placement_error's falls
\* off its if/elif and returns None, on which str(dc) raises TypeError
Renderable(dc) ==
    dc.kind = "instance_placement_error" => (dc.placement # "" \/ PlacementAll(dc))

\* str(dc)
Str(file, dc) ==
    IF dc.kind = "edge_use_error" THEN
        <<"On instance", fmt(file, "inst", dc.inst), "the edge",
          fmt(file, dc.edge_type, dc.edge), "was referenced",
          fmt(file, "int", dc.count), "times">>
    ELSE IF dc.kind = "instance_count_error" THEN
        IF Len(dc.insts) # 0 THEN
            <<"The following", Len(dc.insts), "instances of type", dc.type_name,
              "were encountered:",
              [i \in 1..Len(dc.insts) |-> fmt(file, "inst", dc.insts[i])]>>
        ELSE <<"No instances of type", dc.type_name, "were encountered">>
    ELSE IF dc.kind = "instance_structure_error" THEN
        <<"The instance", fmt(file, "inst", dc.related), "is assigned to",
          fmt(file, "inst", dc.relating)>>
    ELSE IF dc.placement # "" THEN
        <<"The placement of", fmt(file, "inst", dc.entity), "is not defined by",
          fmt(file, "typename", dc.placement), "but with",
          fmt(file, "inst", file.insts[dc.entity].ObjectPlacement)>>
    ELSE
        <<"The entity", fmt(file, "inst", dc.entity), "is contained in",
          fmt(file, "inst", dc.container), "with the",
          fmt(file, "typename", dc.relationship),
          "relationship. The container points to",
          fmt(file, "inst", dc.container_obj_placement), "but the entity to",
          fmt(file, "inst", dc.entity_obj_placement)>>

\* get_inst_attributes(dc)
get_inst_attributes(file, dc) ==
    IF hasattr(dc, "inst") THEN
        <<IF hasattr(file.insts[dc.inst], "GlobalId")
          THEN file.insts[dc.inst].GlobalId ELSE NoneStr,
          file.insts[dc.inst].type, dc.inst>>
    ELSE <<>>

\* json.dumps(asdict(dc), default=tuple)
asdict(file, dc) ==
    [fields |-> dc, message |-> Str(file, dc), inst |-> get_inst_attributes(file, dc)]

error_formatter(file, json, dc) == IF json THEN asdict(file, dc) ELSE Str(file, dc)

(***************************************************************************)
(* The outcome of a step.                                                  *)
(***************************************************************************)
\* the step raises exception e before it reports anything
NoMessage == [format |-> "none", lines |-> <<>>]

Raise(e) ==
    /\ status' = e
    /\ errors' = <<>>
    /\ message' = NoMessage

\* handle_errors(context, errors), json: context.config.format == ["json"]
handle_errors(errs, json) ==
    /\ errors' = errs
    /\ IF errs = <<>> THEN
           status' = "passed" /\ message' = NoMessage
       ELSE IF \E i \in DOMAIN errs : ~Renderable(errs[i]) THEN
           status' = "TypeError" /\ message' = NoMessage
       ELSE
           /\ status' = "AssertionError"
           /\ message' = [format |-> IF json THEN "json" ELSE "plain",
                          lines |-> [i \in DOMAIN errs |->
                                       error_formatter(context.model, json, errs[i])]]

\* a scenario runs its steps until one raises
Running == status \in {"none", "passed"}

(***************************************************************************)
(* Given An {entity}                                                       *)
(***************************************************************************)
GivenAn(entity) ==
    /\ Running
    /\ step' = [name |-> "An"]
    /\ context' = ("instances" :>
                     (IF by_type_raises(context.model, entity) THEN <<>>
                      ELSE by_type(context.model, entity))) @@ context
    /\ status' = "passed"
    /\ errors' = <<>>
    /\ message' = NoMessage

(***************************************************************************)
(* Then Every {something} shall be referenced exactly {num:d} times by     *)
(* the loops of the face                                                   *)
(***************************************************************************)
\* EdgeUseErrors with the fault of flagging only the edges used too rarely
EdgeUseErrors_Below(file, id, oriented, num) ==
    LET edge_usage == Counter(get_edges(file.insts[id], oriented))
        invalid == {ed \in DOMAIN edge_usage : edge_usage[ed] < num}
        order == SetToSeq(invalid)
    IN  [i \in 1..Len(order) |->
           [kind |-> "edge_use_error", inst |-> id, edge |-> order[i],
            edge_type |-> IF oriented THEN "tuple" ELSE "frozenset",
            count |-> edge_usage[order[i]]]]

\* the findings the generator _() yields for one instance
EdgeUseErrors(file, id, oriented, num) ==
    LET edge_usage == Counter(get_edges(file.insts[id], oriented))
        invalid == {ed \in DOMAIN edge_usage : edge_usage[ed] # num}
        order == SetToSeq(invalid)
    IN  [i \in 1..Len(order) |->
           [kind |-> "edge_use_error", inst |-> id, edge |-> order[i],
            edge_type |-> IF oriented THEN "tuple" ELSE "frozenset",
            count |-> edge_usage[order[i]]]]

\* EdgeUsageList with the fault of skipping an instance get_edges raises on
EdgeUsageList_Skipping(file, insts, oriented, num) ==
    [exc |-> "",
     errors |-> Concat([i \in DOMAIN insts |->
                          IF get_edges_raises(file.insts[insts[i]]) # "" THEN <<>>
                          ELSE EdgeUseErrors(file, insts[i], oriented, num)])]

\* list(_()): the exception that ends the generator, or the findings
EdgeUsageList(file, insts, oriented, num) ==
    LET bad == {i \in DOMAIN insts : get_edges_raises(file.insts[insts[i]]) # ""}
    IN  IF bad # {} THEN
            [exc |-> get_edges_raises(file.insts[insts[CHOOSE i \in bad : \A j \in bad : i <= j]]),
             errors |-> <<>>]
        ELSE
            [exc |-> "",
             errors |-> Concat([i \in DOMAIN insts |->
                                  EdgeUseErrors(file, insts[i], oriented, num)])]

ThenEveryEdgeReferenced(something, num, json) ==
    /\ Running
    /\ step' = [name |-> "edge_usage", something |-> something, num |-> num]
    /\ UNCHANGED context
    /\ IF something \notin {"edge", "oriented edge"} THEN Raise("AssertionError")
       ELSE IF ~hasattr(context, "instances") THEN Raise("AttributeError")
       ELSE LET r == EdgeUsageList(context.model, context.instances,
                                   something = "oriented edge", num)
            IN  IF r.exc # "" THEN Raise(r.exc) ELSE handle_errors(r.errors, json)

(***************************************************************************)
(* Python strings the steps take apart are sequences of characters.        *)
(***************************************************************************)
LowerOf == [I |-> "i", F |-> "f", C |-> "c", X |-> "x", R |-> "r", V |-> "v"]

\* str.lower
lower(s) == [i \in 1..Len(s) |-> IF s[i] \in DOMAIN LowerOf THEN LowerOf[s[i]] ELSE s[i]]

\* the first position at which sep occurs in s, 0 when it does not
find(s, sep) ==
    LET at == {i \in 1..(Len(s) - Len(sep) + 1) : SubSeq(s, i, i + Len(sep) - 1) = sep}
    IN  IF at = {} THEN 0 ELSE CHOOSE i \in at : \A j \in at : i <= j

\* s.split(sep)
RECURSIVE split(_, _)
split(s, sep) ==
    LET i == find(s, sep)
    IN  IF i = 0 THEN <<s>>
        ELSE <<SubSeq(s, 1, i - 1)>> \o split(SubSeq(s, i + Len(sep), Len(s)), sep)

\* s.split(sep, 1)
split_once(s, sep) ==
    LET i == find(s, sep)
    IN  IF i = 0 THEN <<s>>
        ELSE <<SubSeq(s, 1, i - 1), SubSeq(s, i + Len(sep), Len(s))>>

\* s.strip(c)
RECURSIVE strip(_, _)
strip(s, c) ==
    IF s # <<>> /\ Head(s) = c THEN strip(Tail(s), c)
    ELSE IF s # <<>> /\ s[Len(s)] = c THEN strip(SubSeq(s, 1, Len(s) - 1), c)
    ELSE s

\* get_mvd(ifc_file): [found |-> FALSE] is None
get_mvd(file) ==
    LET d == file.description
    IN  IF d = <<>> \/ Len(split_once(d[1], <<" ">>)) < 2 THEN [found |-> FALSE]
        ELSE LET m == split_once(d[1], <<" ">>)[2]
             IN  [found |-> TRUE, v |-> SubSeq(m, 2, Len(m) - 1)]

\* ast.literal_eval on the value texts the filter step is given
LiteralEval ==
    [ QuotedA |-> [ok |-> TRUE, v |-> "a"],
      QuotedB |-> [ok |-> TRUE, v |-> "b"],
      None |-> [ok |-> TRUE, v |-> NoneStr],
      BareA |-> [ok |-> FALSE] ]

(***************************************************************************)
(* Given {attribute} = {value}                                             *)
(***************************************************************************)
\* list(filter(lambda inst: getattr(inst, attribute) == value, instances))
\* where every getattr succeeds
FilterByAttribute(file, insts, attribute, value) ==
    SelectSeq(insts, LAMBDA id : file.insts[id][attribute] = value)

\* whether some getattr(inst, attribute) raises AttributeError
FilterRaises(file, insts, attribute) ==
    \E i \in DOMAIN insts : ~hasattr(file.insts[insts[i]], attribute)

GivenAttributeEquals(attribute, value) ==
    /\ Running
    /\ step' = [name |-> "filter", attribute |-> attribute, value |-> value]
    /\ errors' = <<>>
    /\ message' = NoMessage
    /\ IF ~LiteralEval[value].ok THEN
           status' = "ValueError" /\ UNCHANGED context
       ELSE IF ~hasattr(context, "instances") THEN
           status' = "AttributeError" /\ UNCHANGED context
       ELSE IF FilterRaises(context.model, context.instances, attribute) THEN
           status' = "AttributeError" /\ UNCHANGED context
       ELSE
           /\ status' = "passed"
           /\ context' = ("instances" :>
                            FilterByAttribute(context.model, context.instances,
                                              attribute, LiteralEval[value].v)) @@ context

(***************************************************************************)
(* Given A file with {field} "{values}"                                    *)
(***************************************************************************)
\* list(map(str.lower, map(lambda s: s.strip('"'), values.split(' or '))))
FileValues(values) ==
    LET parts == split(values, <<" ", "o", "r", " ">>)
    IN  [i \in 1..Len(parts) |-> lower(strip(parts[i], "\""))]

\* getattr(context, 'applicable', True)
Applicable(ctx) == IF hasattr(ctx, "applicable") THEN ctx.applicable ELSE TRUE

GivenFileWith(field, values) ==
    /\ Running
    /\ step' = [name |-> "file_with"]
    /\ errors' = <<>>
    /\ message' = NoMessage
    /\ IF field = "Model View Definition" THEN
           LET mvd == get_mvd(context.model)
               \* conditional_lowercase: s.lower() if s else None
               applicable == /\ mvd.found
                             /\ mvd.v # <<>>
                             /\ lower(mvd.v) \in Range(FileValues(values))
           IN  /\ status' = "passed"
               /\ context' = ("applicable" :> (Applicable(context) /\ applicable)) @@ context
       ELSE IF field = "Schema Identifier" THEN
           LET applicable == lower(context.model.schema) \in Range(FileValues(values))
           IN  /\ status' = "passed"
               /\ context' = ("applicable" :> (Applicable(context) /\ applicable)) @@ context
       ELSE status' = "NotImplementedError" /\ UNCHANGED context

(***************************************************************************)
(* Given A relationship {relationship} {dir1} {entity} {dir2}              *)
(* {other_entity} {tail}                                                   *)
(***************************************************************************)
\* the first rows of resources/relating_entity_attributes.csv and
\* resources/related_entity_attributes.csv
relating_attr_matrix == [IfcRelAggregates |-> "RelatingObject"]
related_attr_matrix == [IfcRelAggregates |-> "RelatedObjects"]

\* readable: whether open() finds the two csv files
GivenRelationship(relationship, dir1, entity, dir2, other_entity, tail, readable) ==
    /\ Running
    /\ step' = [name |-> "relationship", relationship |-> relationship,
                dir1 |-> dir1, dir2 |-> dir2, entity |-> entity,
                other_entity |-> other_entity]
    /\ errors' = <<>>
    /\ message' = NoMessage
    /\ IF dir1 = dir2 THEN
           status' = "AssertionError" /\ UNCHANGED context
       ELSE IF by_type_raises(context.model, relationship) THEN
           status' = "RuntimeError" /\ UNCHANGED context
       ELSE IF ~readable THEN
           status' = "FileNotFoundError" /\ UNCHANGED context
       ELSE IF by_type(context.model, relationship) # <<>> THEN
           \* line 234 reads relationship_relating_attr, a name nothing binds
           status' = "NameError" /\ UNCHANGED context
       ELSE
           /\ status' = "passed"
           /\ context' = ("instances" :> <<>>) @@ context

(***************************************************************************)
(* Then There shall be {constraint} {num:d} instance(s) of {entity}        *)
(***************************************************************************)
\* CountOp with the fault of strict comparisons
CountOp_Strict(constraint, n, num) == IF constraint = "at least" THEN n > num ELSE n < num

\* stmt_to_op[constraint](n, num)
CountOp(constraint, n, num) == IF constraint = "at least" THEN n >= num ELSE n <= num

InstanceCountErrors(file, constraint, num, entity) ==
    LET insts == by_type(file, entity)
    IN  IF ~CountOp(constraint, Len(insts), num)
        THEN <<[kind |-> "instance_count_error", insts |-> insts, type_name |-> entity]>>
        ELSE <<>>

ThenInstanceCount(constraint, num, entity, json) ==
    /\ Running
    /\ step' = [name |-> "instance_count", constraint |-> constraint, num |-> num,
                entity |-> entity]
    /\ UNCHANGED context
    /\ IF constraint \notin {"at least", "at most"} THEN Raise("AssertionError")
       ELSE IF ~Applicable(context) THEN handle_errors(<<>>, json)
       ELSE IF by_type_raises(context.model, entity) THEN Raise("RuntimeError")
       ELSE handle_errors(InstanceCountErrors(context.model, constraint, num, entity), json)

(***************************************************************************)
(* Then The {related} shall be assigned to the {relating} if               *)
(* {other_entity} {condition} present                                      *)
(***************************************************************************)
\* op = lambda n: not pred(n, 0)
PresentOp(condition, n) == IF condition = "is" THEN ~(n = 0) ELSE ~(n # 0)

\* getattr(inst, 'Decomposes', [])
DecomposesOrEmpty(inst) == IF hasattr(inst, "Decomposes") THEN inst.Decomposes ELSE <<>>

StructureErrors(file, related, relating) ==
    LET insts == by_type(file, related)
        of(id) ==
            LET rels == DecomposesOrEmpty(file.insts[id])
                bad == SelectSeq(rels, LAMBDA r :
                          ~is_a(file.insts[file.insts[r].RelatingObject], relating))
            IN  [k \in 1..Len(bad) |->
                   [kind |-> "instance_structure_error", related |-> id,
                    relating |-> file.insts[bad[k]].RelatingObject]]
    IN  Concat([i \in 1..Len(insts) |-> of(insts[i])])

ThenAssignedTo(related, relating, other_entity, condition, json) ==
    /\ Running
    /\ step' = [name |-> "assigned_to"]
    /\ UNCHANGED context
    /\ IF condition \notin {"is", "is not"} THEN Raise("AssertionError")
       ELSE IF ~Applicable(context) THEN handle_errors(<<>>, json)
       ELSE IF by_type_raises(context.model, other_entity) THEN Raise("RuntimeError")
       ELSE IF ~PresentOp(condition, Len(by_type(context.model, other_entity)))
            THEN handle_errors(<<>>, json)
       ELSE IF by_type_raises(context.model, related) THEN Raise("RuntimeError")
       ELSE handle_errors(StructureErrors(context.model, related, relating), json)

(***************************************************************************)
(* Then The relative placement of that {entity} must be provided by an     *)
(* {other_entity} entity                                                   *)
(***************************************************************************)
RelativePlacementErrors(file, insts, other_entity) ==
    LET bad == SelectSeq(insts, LAMBDA id :
                  \/ file.insts[id].ObjectPlacement = None
                  \/ ~is_a(file.insts[file.insts[id].ObjectPlacement], other_entity))
    IN  [k \in 1..Len(bad) |->
           [kind |-> "instance_placement_error", entity |-> bad[k],
            placement |-> other_entity, container |-> EmptyStr,
            relationship |-> "", container_obj_placement |-> EmptyStr,
            entity_obj_placement |-> EmptyStr]]

\* a step whose body is skipped passes and reports nothing
Skip ==
    /\ status' = "passed"
    /\ errors' = <<>>
    /\ message' = NoMessage

ThenRelativePlacement(other_entity, json) ==
    /\ Running
    /\ step' = [name |-> "relative_placement"]
    /\ UNCHANGED context
    /\ IF ~Applicable(context) THEN Skip
       ELSE IF ~hasattr(context, "instances") THEN Raise("AttributeError")
       ELSE IF \E i \in DOMAIN context.instances :
                  ~hasattr(context.model.insts[context.instances[i]], "ObjectPlacement")
            THEN Raise("AttributeError")
       ELSE handle_errors(RelativePlacementErrors(context.model, context.instances,
                                                  other_entity), json)

(***************************************************************************)
(* Then The {entity} attribute must point to the {other_entity} of the     *)
(* container element established with {relationship} relationship          *)
(***************************************************************************)
\* One pass of the loop body for instance `id`; rel is the value the local
\* variable entity_obj_placement_rel holds when the pass begins (Unbound
\* before the first pass).  Returns the exception the pass raises ("" for
\* none), the value rel holds after it, and the findings it appends.
PlacementPass(file, id, relationship, rel) ==
    LET entity == file.insts[id]
    IN  IF ~hasattr(entity, "Decomposes") THEN
            [exc |-> "AttributeError", rel |-> rel, errors |-> <<>>]
        ELSE IF entity.Decomposes = <<>> THEN
            [exc |-> "IndexError", rel |-> rel, errors |-> <<>>]
        ELSE
        LET container == file.insts[entity.Decomposes[1]].RelatingObject
        IN  IF ~hasattr(file.insts[container], "ObjectPlacement")
               \/ ~hasattr(entity, "ObjectPlacement") THEN
                [exc |-> "AttributeError", rel |-> rel, errors |-> <<>>]
            ELSE
            LET container_obj_placement == file.insts[container].ObjectPlacement
                entity_obj_placement == entity.ObjectPlacement
                \* the try block of lines 310-314
                has_rel == /\ entity_obj_placement # None
                           /\ hasattr(file.insts[entity_obj_placement], "PlacementRelTo")
                rel1 == IF has_rel THEN file.insts[entity_obj_placement].PlacementRelTo
                        ELSE rel
                is_correct == has_rel /\ container_obj_placement = rel1
                \* the try block of lines 315-318
                rel2 == IF rel1 = Unbound THEN NotFound ELSE rel1
            IN  [exc |-> "", rel |-> rel2,
                 errors |->
                    IF is_correct THEN <<>>
                    ELSE <<[kind |-> "instance_placement_error", entity |-> id,
                            placement |-> "", container |-> container,
                            relationship |-> relationship,
                            container_obj_placement |-> container_obj_placement,
                            entity_obj_placement |-> rel2]>>]

\* the for loop of lines 302-321 from position i on
RECURSIVE PlacementLoop(_, _, _, _, _, _)
PlacementLoop(file, insts, relationship, i, rel, errs) ==
    IF i > Len(insts) THEN [exc |-> "", errors |-> errs]
    ELSE LET p == PlacementPass(file, insts[i], relationship, rel)
         IN  IF p.exc # "" THEN [exc |-> p.exc, errors |-> <<>>]
             ELSE PlacementLoop(file, insts, relationship, i + 1, p.rel, errs \o p.errors)

ThenContainerPlacement(relationship, json) ==
    /\ Running
    /\ step' = [name |-> "container_placement", relationship |-> relationship]
    /\ UNCHANGED context
    /\ IF ~Applicable(context) THEN Skip
       ELSE IF relationship # "IfcRelAggregates" THEN Raise("AssertionError")
       ELSE IF ~hasattr(context, "instances") THEN Raise("AttributeError")
       ELSE LET r == PlacementLoop(context.model, context.instances, relationship,
                                   1, Unbound, <<>>)
            IN  IF r.exc # "" THEN Raise(r.exc) ELSE handle_errors(r.errors, json)

(***************************************************************************)
(* The files.                                                              *)
(***************************************************************************)
Vertices == 1..NV

Loops == UNION {[1..n -> Vertices] : n \in 1..MaxLoopLen}

PolyLoop(c) == [type |-> "IfcPolyLoop", Polygon |-> c]

OrientedEdge(a, b, o) ==
    [type |-> "IfcOrientedEdge", EdgeStart |-> a, EdgeEnd |-> b, Orientation |-> o]

OrientedEdges == {OrientedEdge(a, b, o) : a \in Vertices, b \in Vertices, o \in BOOLEAN}

ConnectedFaceSet(t, deps) == [type |-> t, deps |-> deps]

TriangulatedFaceSet(coords, idx) ==
    [type |-> "IfcTriangulatedFaceSet", CoordList |-> coords, CoordIndex |-> idx]

Face(ci) == [type |-> "IfcIndexedPolygonalFace", CoordIndex |-> ci]

FaceWithVoids(ci, inner) ==
    [type |-> "IfcIndexedPolygonalFaceWithVoids", CoordIndex |-> ci,
     InnerCoordIndices |-> inner]

PolygonalFaceSet(coords, faces) ==
    [type |-> "IfcPolygonalFaceSet", CoordList |-> coords, Faces |-> faces]

CoordList == [i \in 1..NV |-> i]

\* a tetrahedron, its four faces wound consistently
TetraFaces == << <<1, 2, 3>>, <<1, 4, 2>>, <<2, 4, 3>>, <<3, 4, 1>> >>
TetraClosed == TriangulatedFaceSet(<<1, 2, 3, 4>>, TetraFaces)
TetraOpen == TriangulatedFaceSet(<<1, 2, 3, 4>>, SubSeq(TetraFaces, 1, 3))

\* a square with a triangular hole, and a second face on one of its sides
SquareWithVoid ==
    PolygonalFaceSet(<<1, 2, 3, 4, 5, 6, 7>>,
        << FaceWithVoids(<<1, 2, 3, 4>>, << <<5, 6, 7>> >>), Face(<<2, 1, 5>>) >>)

\* a closed shell: a loop walked twice in opposite directions, and an
\* oriented edge along it
TwoSidedShell ==
    ConnectedFaceSet("IfcClosedShell",
        << PolyLoop(<<1, 2, 3>>), OrientedEdge(1, 2, FALSE), PolyLoop(<<3, 2, 1>>) >>)

Unsupported == [type |-> "IfcFaceBasedSurfaceModel"]

LibMeshes == {TetraClosed, TetraOpen, SquareWithVoid, TwoSidedShell, Unsupported}

\* one instance: every loop, every oriented edge, every pair of oriented
\* edges over the same two vertices, every triangle, every polygonal face
GenMeshes ==
    {ConnectedFaceSet("IfcConnectedFaceSet", <<PolyLoop(l)>>) : l \in Loops}
    \cup {ConnectedFaceSet("IfcConnectedFaceSet", <<e>>) : e \in OrientedEdges}
    \cup UNION {{ConnectedFaceSet("IfcConnectedFaceSet", <<e, f>>) :
                   f \in {g \in OrientedEdges :
                            {g.EdgeStart, g.EdgeEnd} = {e.EdgeStart, e.EdgeEnd}}} :
                e \in OrientedEdges}
    \cup {TriangulatedFaceSet(CoordList, <<t>>) : t \in [1..3 -> Vertices]}
    \cup {PolygonalFaceSet(CoordList, <<Face(l)>>) : l \in Loops}

MeshLists ==
    {<<m>> : m \in GenMeshes}
    \cup UNION {[1..n -> LibMeshes] : n \in 1..MaxInsts}

\* ---- files of products ----
Building(placement) ==
    [type |-> "IfcBuilding", GlobalId |-> "g", Name |-> "b", ObjectPlacement |-> placement,
     Decomposes |-> <<>>]

Wall(name, placement, decomposes) ==
    [type |-> "IfcWall", GlobalId |-> "g", Name |-> name, Tag |-> "a",
     ObjectPlacement |-> placement, Decomposes |-> decomposes]

LocalPlacement(rel) == [type |-> "IfcLocalPlacement", PlacementRelTo |-> rel]

\* IfcGridPlacement of IFC4 has no PlacementRelTo
GridPlacement == [type |-> "IfcGridPlacement"]

RelAggregates(relating, related) ==
    [type |-> "IfcRelAggregates", GlobalId |-> "g", RelatingObject |-> relating,
     RelatedObjects |-> related]

\* a building and walls that differ in their names
NamedLists ==
    UNION {{<<Building(None)>> \o [i \in 1..n |-> Wall(names[i], None, <<>>)] :
              names \in [1..n -> {"a", "b", NoneStr}]} : n \in 0..MaxWalls}

\* The placements every placed file holds, at ids 2 to 6: the building's
\* own, another one, a grid placement, one relative to the building's and
\* one relative to the other.
Placements ==
    <<LocalPlacement(None), LocalPlacement(None), GridPlacement,
      LocalPlacement(2), LocalPlacement(3)>>

\* the ObjectPlacement of a wall of a placed file
WallPlacements == {None, 3, 4, 5, 6}

\* a placed building (id 1), the placements, the walls (ids 7..) and the
\* IfcRelAggregates by which the building aggregates the walls (the last id)
PlacedList(placements) ==
    LET n == Len(placements)
    IN  <<Building(2)>> \o Placements
        \o [i \in 1..n |-> Wall("a", placements[i], <<7 + n>>)]
        \o <<RelAggregates(1, [i \in 1..n |-> 6 + i])>>

PlacedLists ==
    UNION {{PlacedList(ps) : ps \in [1..n -> WallPlacements]} : n \in 1..MaxWalls}

\* a wall with a placement, aggregated by a building without one
UnplacedBuilding ==
    <<Building(None), LocalPlacement(None), LocalPlacement(2), Wall("a", 3, <<5>>),
      RelAggregates(1, <<4>>)>>

IFC4 == <<"I", "F", "C", "4">>

\* "V [RV]": a view definition with a model view name
ViewDescription == << <<"V", " ", "[", "R", "V", "]">> >>

File(insts, description) ==
    [insts |-> insts, schema |-> IFC4, description |-> description]

\* the files of the scenarios about products, with a few meshes
Files ==
    {File(l, ViewDescription) :
        l \in NamedLists \cup PlacedLists \cup {UnplacedBuilding}
              \cup {<<m>> : m \in LibMeshes}}
    \cup {File(<<Building(None)>>, <<>>)}

\* the files of the scenarios about meshes
MeshFiles == {File(l, <<>>) : l \in MeshLists}

EntityNames == {"IfcRepresentationItem", "IfcConnectedFaceSet", "IfcTessellatedFaceSet",
                "IfcWall", "IfcProduct", "IfcBogus"}

\* the values of a "A file with" step, as the step pattern hands them over
FileWithValues ==
    { <<"I", "F", "C", "4">>,
      <<"I", "F", "C", "2", "X", "3", "\"", " ", "o", "r", " ", "\"", "R", "v">> }

\* the calls of the relationship step: relationship, dir1, entity, dir2,
\* other_entity (from is 0, to is 1)
RelationshipCalls ==
    { <<"IfcRelAggregates", 0, "IfcWall", 1, "IfcBuilding">>,
      <<"IfcRelAggregates", 0, "IfcBuilding", 1, "IfcWall">>,
      <<"IfcRelAggregates", 1, "IfcWall", 0, "IfcBuilding">>,
      <<"IfcRelAggregates", 0, "IfcWall", 0, "IfcBuilding">>,
      <<"IfcRelAggregates", 1, "IfcWall", 1, "IfcBuilding">>,
      <<"IfcBogus", 0, "IfcWall", 1, "IfcBuilding">> }

\* the calls of the instance count step: constraint and entity
CountCalls ==
    { <<"at least", "IfcWall">>, <<"at most", "IfcWall">>, <<"exactly", "IfcWall">>,
      <<"at least", "IfcBogus">> }

Start(files) ==
    /\ context \in {[model |-> f] : f \in files}
    /\ status = "none"
    /\ step = [name |-> "none"]
    /\ errors = <<>>
    /\ message = NoMessage

Init == Start(Files)

Next ==
    \/ \E entity \in EntityNames : GivenAn(entity)
    \/ \E something \in {"edge", "oriented edge", "vertex"}, num \in 1..MaxNum,
          json \in BOOLEAN : ThenEveryEdgeReferenced(something, num, json)
    \/ \E attribute \in {"Name", "Tag"}, value \in DOMAIN LiteralEval :
          GivenAttributeEquals(attribute, value)
    \/ \E field \in {"Model View Definition", "Schema Identifier", "Author"},
          values \in FileWithValues : GivenFileWith(field, values)
    \/ \E c \in RelationshipCalls, tail \in {0, 1}, readable \in BOOLEAN :
          GivenRelationship(c[1], c[2], c[3], c[4], c[5], tail, readable)
    \/ \E c \in CountCalls, num \in 0..MaxNum, json \in BOOLEAN :
          ThenInstanceCount(c[1], num, c[2], json)
    \/ \E relating \in {"IfcBuilding", "IfcWall"}, other_entity \in {"IfcBuilding", "IfcBogus"},
          condition \in {"is", "is not", "was"}, json \in BOOLEAN :
          ThenAssignedTo("IfcWall", relating, other_entity, condition, json)
    \/ \E other_entity \in {"IfcLocalPlacement", "IfcGridPlacement"}, json \in BOOLEAN :
          ThenRelativePlacement(other_entity, json)
    \/ \E relationship \in {"IfcRelAggregates", "IfcRelContainedInSpatialStructure"},
          json \in BOOLEAN : ThenContainerPlacement(relationship, json)

\* the scenarios about products
Spec == Init /\ [][Next]_vars

MeshInit == Start(MeshFiles)

MeshNext ==
    \/ \E entity \in EntityNames : GivenAn(entity)
    \/ \E something \in {"edge", "oriented edge", "vertex"}, num \in 1..MaxNum,
          json \in BOOLEAN : ThenEveryEdgeReferenced(something, num, json)

\* the scenarios about meshes
MeshSpec == MeshInit /\ [][MeshNext]_vars

(***************************************************************************)
(* Properties.                                                             *)
(***************************************************************************)
Model == context.model

\* handle_errors of the edge usage step was reached
EdgeStepReported ==
    /\ step.name = "edge_usage"
    /\ step.something \in {"edge", "oriented edge"}
    /\ status \in {"passed", "AssertionError"}

\* the findings about instance id
FindingsOn(id) == {i \in DOMAIN errors : errors[i].inst = id}

IsTetra(inst, tetra) == inst.type = "IfcTriangulatedFaceSet" /\ inst = tetra

\* C1: the edge usage step reports, per instance, exactly one finding for
\* each distinct decoded edge whose number of occurrences in that instance
\* differs from num, with that instance, edge and number, and none for an
\* edge that occurs num times; the closed tetrahedron gives no finding for
\* "edge" and 2, the tetrahedron without a face gives three with count 1.
C1_EdgeUsageFindings ==
    EdgeStepReported =>
        LET oriented == step.something = "oriented edge"
            edges(id) == get_edges(Model.insts[id], oriented)
            occ(id, e) == Cardinality({k \in DOMAIN edges(id) : edges(id)[k] = e})
        IN  /\ \A i \in DOMAIN errors :
                  /\ errors[i].kind = "edge_use_error"
                  /\ errors[i].inst \in Range(context.instances)
                  /\ errors[i].edge \in Range(edges(errors[i].inst))
                  /\ errors[i].count = occ(errors[i].inst, errors[i].edge)
            /\ \A id \in Range(context.instances) : \A e \in Range(edges(id)) :
                  Cardinality({i \in FindingsOn(id) : errors[i].edge = e})
                      = IF occ(id, e) # step.num THEN 1 ELSE 0
            /\ (step.something = "edge" /\ step.num = 2) =>
                  \A id \in Range(context.instances) :
                      /\ IsTetra(Model.insts[id], TetraClosed) => FindingsOn(id) = {}
                      /\ IsTetra(Model.insts[id], TetraOpen) =>
                            /\ Cardinality(FindingsOn(id)) = 3
                            /\ \A i \in FindingsOn(id) : errors[i].count = 1

\* the closed tetrahedron and the open one in one list, "edge" and 2: the
\* three findings are those of the open one
C1_Witness ==
    /\ EdgeStepReported
    /\ step.something = "edge" /\ step.num = 2
    /\ hasattr(context, "instances")
    /\ context.instances = <<1, 2>>
    /\ IsTetra(Model.insts[1], TetraClosed)
    /\ IsTetra(Model.insts[2], TetraOpen)
    /\ Len(TetraClosed.CoordIndex) = 4
    /\ Cardinality(Range(get_edges(TetraClosed, FALSE))) = 6
    /\ Len(errors) = 3
    /\ status = "AssertionError"

Supported(inst) ==
    \/ is_a(inst, "IfcConnectedFaceSet")
    \/ is_a(inst, "IfcTriangulatedFaceSet")
    \/ is_a(inst, "IfcPolygonalFaceSet")

\* C5: get_edges raises NotImplementedError on an instance of no supported
\* encoding and yields it no edges, and an edge usage step whose instance
\* list holds such an instance ends with that error and reports nothing.
C5_UnsupportedAborts ==
    /\ \A id \in DOMAIN Model.insts :
          ~Supported(Model.insts[id]) =>
              get_edges_raises(Model.insts[id]) = "NotImplementedError"
    /\ ( /\ step.name = "edge_usage"
         /\ step.something \in {"edge", "oriented edge"}
         /\ hasattr(context, "instances")
         /\ \E id \in Range(context.instances) : ~Supported(Model.insts[id]) )
       => /\ status = "NotImplementedError"
          /\ errors = <<>>
          /\ message = NoMessage

\* the open tetrahedron, which has findings, before an unsupported instance
C5_Witness ==
    /\ step.name = "edge_usage"
    /\ step.something = "edge" /\ step.num = 2
    /\ hasattr(context, "instances")
    /\ context.instances = <<1, 2>>
    /\ IsTetra(Model.insts[1], TetraOpen)
    /\ ~Supported(Model.insts[2])
    /\ status = "NotImplementedError"

\* the loop l started k vertices later
Rotate(l, k) == [i \in 1..Len(l) |-> l[((i + k - 1) % Len(l)) + 1]]

OneLoop(inst) ==
    /\ inst.type = "IfcConnectedFaceSet"
    /\ Len(inst.deps) = 1
    /\ inst.deps[1].type = "IfcPolyLoop"

\* C7: unordered, a polygon loop decodes to one edge per consecutive pair of
\* vertices and the edge from its last vertex to its first, and every
\* rotation of the loop decodes to the same multiset of edges.
C7_RotationInvariant ==
    \A id \in DOMAIN Model.insts :
        OneLoop(Model.insts[id]) =>
            LET l == Model.insts[id].deps[1].Polygon
                n == Len(l)
                edges == get_edges(Model.insts[id], FALSE)
            IN  /\ Len(edges) = n
                /\ \A i \in 1..(n - 1) : edges[i] = {l[i], l[i + 1]}
                /\ edges[n] = {l[n], l[1]}
                /\ \A k \in 1..n :
                      Counter(get_edges(ConnectedFaceSet("IfcConnectedFaceSet",
                                                         <<PolyLoop(Rotate(l, k))>>), FALSE))
                          = Counter(edges)

\* the edge usage step has decoded a loop of three distinct vertices
C7_Witness ==
    /\ EdgeStepReported
    /\ step.something = "edge"
    /\ context.instances = <<1>>
    /\ OneLoop(Model.insts[1])
    /\ Len(Model.insts[1].deps[1].Polygon) = 3
    /\ Cardinality(Range(Model.insts[1].deps[1].Polygon)) = 3

OnlyOrientedEdges(inst) ==
    /\ inst.type = "IfcConnectedFaceSet"
    /\ \A d \in Range(inst.deps) : d.type = "IfcOrientedEdge"

\* the same edge from a to b, a # b, once with Orientation true and once false
BothSenses(inst) ==
    /\ OnlyOrientedEdges(inst)
    /\ Len(inst.deps) = 2
    /\ inst.deps[1].EdgeStart # inst.deps[1].EdgeEnd
    /\ inst.deps[1].Orientation
    /\ inst.deps[2] = [inst.deps[1] EXCEPT !.Orientation = FALSE]

\* C8: oriented, an oriented edge from a to b decodes to (a,b) when its
\* Orientation is true and to (b,a) when it is false, two distinct entries
\* of the multiset; unordered, both decode to the one entry {a,b}.
C8_OrientedEdges ==
    /\ \A id \in DOMAIN Model.insts :
          LET inst == Model.insts[id] IN
          /\ (OnlyOrientedEdges(inst) /\ Len(inst.deps) = 1) =>
                LET a == inst.deps[1].EdgeStart
                    b == inst.deps[1].EdgeEnd
                IN  /\ get_edges(inst, TRUE)
                          = <<IF inst.deps[1].Orientation THEN <<a, b>> ELSE <<b, a>> >>
                    /\ get_edges(inst, FALSE) = <<{a, b}>>
          /\ BothSenses(inst) =>
                LET a == inst.deps[1].EdgeStart
                    b == inst.deps[1].EdgeEnd
                IN  /\ Counter(get_edges(inst, TRUE)) = (<<a, b>> :> 1) @@ (<<b, a>> :> 1)
                    /\ Counter(get_edges(inst, FALSE)) = ({a, b} :> 2)
    /\ ( /\ EdgeStepReported
         /\ step.num = 2
         /\ context.instances = <<1>>
         /\ BothSenses(Model.insts[1]) )
       => IF step.something = "edge" THEN errors = <<>>
          ELSE /\ Len(errors) = 2
               /\ \A i \in DOMAIN errors : errors[i].count = 1
               /\ {errors[i].edge : i \in DOMAIN errors}
                     = {<<Model.insts[1].deps[1].EdgeStart, Model.insts[1].deps[1].EdgeEnd>>,
                        <<Model.insts[1].deps[1].EdgeEnd, Model.insts[1].deps[1].EdgeStart>>}

\* the oriented check of an edge given in both senses: two entries used once
C8_Witness ==
    /\ EdgeStepReported
    /\ step.something = "oriented edge" /\ step.num = 2
    /\ context.instances = <<1>>
    /\ BothSenses(Model.insts[1])
    /\ Len(errors) = 2

\* the instances of class target_type's relationship `relationship` relates
\* to, of class entity: for every relationship whose relating side is a
\* target_type, the values of its related side that are an entity
RelatedOf(file, relationship, target_type, entity) ==
    LET rels == by_type(file, relationship)
        relating(r) == file.insts[r][relating_attr_matrix[relationship]]
        related(r) == file.insts[r][related_attr_matrix[relationship]]
    IN  UNION {IF is_a(file.insts[relating(r)], target_type)
               THEN {o \in Range(related(r)) : is_a(file.insts[o], entity)}
               ELSE {} : r \in Range(rels)}

\* the same with the two sides exchanged: for every relationship one of
\* whose related values is a target_type, its relating value if an entity
RelatingOf(file, relationship, target_type, entity) ==
    LET rels == by_type(file, relationship)
        relating(r) == file.insts[r][relating_attr_matrix[relationship]]
        related(r) == file.insts[r][related_attr_matrix[relationship]]
    IN  UNION {IF \E o \in Range(related(r)) : is_a(file.insts[o], target_type)
               THEN {o \in {relating(r)} : is_a(file.insts[o], entity)}
               ELSE {} : r \in Range(rels)}

\* C2: with the accessor table at hand, the relationship step with roles
\* from/to sets the instances to the related-side values, of class entity,
\* of the relationships whose relating side is of class other_entity: the
\* walls of the buildings for entity IfcWall and other_entity IfcBuilding,
\* nothing with the two classes swapped.
C2_RelationshipTraversal ==
    ( /\ step.name = "relationship"
      /\ step.relationship = "IfcRelAggregates"
      /\ step.dir1 = 0 /\ step.dir2 = 1
      /\ status # "FileNotFoundError" )
    => /\ status = "passed"
       /\ hasattr(context, "instances")
       /\ Range(context.instances)
             = RelatedOf(Model, step.relationship, step.other_entity, step.entity)
       /\ (step.entity = "IfcBuilding" /\ step.other_entity = "IfcWall")
             => context.instances = <<>>

\* C3: the roles select the sides: from/to tests the relating side and
\* collects the related side, to/from the other way round; with equal roles
\* the step fails on its assertion and leaves the context as it was.
C3_RolesSelectSides ==
    [][ step'.name = "relationship" =>
          IF step'.dir1 = step'.dir2
          THEN status' = "AssertionError" /\ context' = context
          ELSE (step'.relationship \in SchemaTypes /\ status' # "FileNotFoundError")
               => /\ status' = "passed"
                  /\ Range(context'.instances)
                        = IF step'.dir1 = 0
                          THEN RelatedOf(Model, step'.relationship,
                                         step'.other_entity, step'.entity)
                          ELSE RelatingOf(Model, step'.relationship,
                                          step'.other_entity, step'.entity) ]_vars

\* C4: the attribute filter keeps, in their order, the instances whose
\* attribute equals the value; an instance without the attribute is dropped
\* and the step does not raise.
C4_AbsentAttributeIsNonMatch ==
    [][ ( /\ step'.name = "filter"
          /\ LiteralEval[step'.value].ok
          /\ hasattr(context, "instances") )
        => /\ status' = "passed"
           /\ context'.instances
                 = SelectSeq(context.instances, LAMBDA id :
                      /\ hasattr(Model.insts[id], step'.attribute)
                      /\ Model.insts[id][step'.attribute] = LiteralEval[step'.value].v) ]_vars

\* the number of instances of class t
CountOf(file, t) == Cardinality({i \in DOMAIN file.insts : is_a(file.insts[i], t)})

\* the text of the only line of the message
OnlyLine == IF message.format = "json" THEN message.lines[1].message ELSE message.lines[1]

\* C6: applicable, "at least" (resp. "at most") num reports exactly one
\* instance_count_error if the class has fewer (resp. more) than num
\* instances and nothing otherwise; on no instance the finding reads "No
\* instances of type <type> were encountered"; not applicable, the step
\* reports nothing whatever the count.
C6_InstanceCount ==
    ( /\ step.name = "instance_count"
      /\ step.constraint \in {"at least", "at most"}
      /\ step.entity \in SchemaTypes )
    => LET n == CountOf(Model, step.entity)
           broken == IF step.constraint = "at least" THEN n < step.num ELSE n > step.num
       IN  IF Applicable(context) /\ broken
           THEN /\ Len(errors) = 1
                /\ errors[1].kind = "instance_count_error"
                /\ errors[1].type_name = step.entity
                /\ Len(errors[1].insts) = n
                /\ status = "AssertionError"
                /\ Len(message.lines) = 1
                /\ n = 0 => OnlyLine = <<"No instances of type", step.entity,
                                         "were encountered">>
           ELSE errors = <<>> /\ status = "passed" /\ message = NoMessage

\* "at least 1" on a file without a wall
C6_Witness ==
    /\ step.name = "instance_count"
    /\ step.constraint = "at least" /\ step.num = 1 /\ step.entity = "IfcWall"
    /\ CountOf(Model, "IfcWall") = 0
    /\ Applicable(context)
    /\ status = "AssertionError"
    /\ Len(errors) = 1

\* the steps that end in handle_errors
CheckingSteps ==
    {"edge_usage", "instance_count", "assigned_to", "relative_placement",
     "container_placement"}

\* whether the placement of instance id is the one the container placement
\* step asks for
PlacedInContainer(file, id) ==
    LET p == file.insts[id].ObjectPlacement
        container == file.insts[file.insts[id].Decomposes[1]].RelatingObject
    IN  /\ p # None
        /\ hasattr(file.insts[p], "PlacementRelTo")
        /\ file.insts[p].PlacementRelTo = file.insts[container].ObjectPlacement

\* C9: a checking step collects the findings of all its instances and then
\* reports: it passes exactly if it collected none, and otherwise fails with
\* a message that holds the rendering of every finding it collected.
C9_FindingsCollectedAndRendered ==
    step.name \in CheckingSteps =>
        /\ status = "passed" => errors = <<>>
        /\ errors # <<>> =>
              /\ status = "AssertionError"
              /\ message.lines
                    = [i \in DOMAIN errors |->
                         error_formatter(Model, message.format = "json", errors[i])]
        /\ (step.name = "container_placement" /\ errors # <<>>) =>
              \A k \in DOMAIN context.instances :
                  ~PlacedInContainer(Model, context.instances[k])
                      => \E i \in DOMAIN errors : errors[i].entity = context.instances[k]

\* C10: a finding of the container placement step carries the
\* PlacementRelTo of the entity it is about, or "Not found" when that entity
\* has no placement or its placement has no PlacementRelTo.
C10_OwnPlacementRel ==
    (step.name = "container_placement" /\ errors # <<>>) =>
        \A i \in DOMAIN errors :
            LET p == Model.insts[errors[i].entity].ObjectPlacement
            IN  errors[i].entity_obj_placement
                    = IF p # None /\ hasattr(Model.insts[p], "PlacementRelTo")
                      THEN Model.insts[p].PlacementRelTo
                      ELSE NotFound

====
